---- MODULE Spec2Model ----
(***************************************************************************)
(* Model of hardened/scalarProd_hardened/scalarProd_kernel.cuh:            *)
(*   scalarProdGPU     - the dot-product kernel, one process per CUDA      *)
(*                       thread (blockIdx.x, threadIdx.y, threadIdx.x),    *)
(*                       one step per access to shared or global memory;   *)
(*   check_correctness - the voter over three copies of the result.        *)
(* Floats are modelled by integers (sums are exact), except in the voter,  *)
(* where one extra value stands for NaN and != is the IEEE comparison.     *)
(***************************************************************************)
EXTENDS Integers, Sequences, FiniteSets, Bags, TLC

\* ---- bounds of the model ------------------------------------------------
MaxVectorN == 3
MaxElementN == 2
MaxGrid == 2
MaxBlockX == 2
MaxBlockY == 2
\* at most this many threads in one launch (gridDim.x * blockDim.x * blockDim.y)
MaxThreads == 2
\* vector elements are drawn from 1..MaxVal
MaxVal == 2
\* check_correctness is launched with size in 0..MaxSize
MaxSize == 2
\* and with up to MaxSpare threads more than size
MaxSpare == 1
\* its buffer holds the numbers 0..MaxResult and NaN
MaxResult == 2

\* ---- program constants (scaled) ------------------------------------------
\* the literal 256 in d_C[vec+256*threadIdx.y], scaled down to the model
ROW_OFFSET == 2
\* the extent 3 of accumResult[ACCUM_N*3]
CACHE_ROWS == 3
\* the values ACCUM_N is given (#define ACCUM_N 1024: a power of two)
AccumChoices == {2, 4}

VARIABLES
    nruns,        \* number of independent launches of scalarProdGPU modelled
    ACCUM_N,      \* #define ACCUM_N
    vectorN,      \* kernel parameter
    elementN,     \* kernel parameter
    gridDimX,     \* gridDim.x
    blockDimX,    \* blockDim.x
    blockDimY,    \* blockDim.y
    d_A,          \* input, read only
    d_B,          \* input, read only
    d_C,          \* d_C[r][slot]: global result memory of launch r
    accumResult,  \* accumResult[r][block][slot]: __shared__ cache of one block
    pc,           \* pc[r][t]: position of thread t
    vec,          \* vec[r][t]: the loop variable of line 50
    iAccum,       \* iAccum[r][t]: the loop variable of lines 61 and 79
    stride,       \* stride[r][t]: the loop variable of line 75
    writes,       \* writes[r]: history of the stores to d_C made at line 83
    sentinelBy,   \* sentinelBy[r]: history of the threads that stored at line 85
    arrivals,     \* arrivals[r][t]: history, how often t arrived at line 77
    accesses,     \* accesses[r][b]: history of the accesses to accumResult that
                  \* the threads of block b made since its last __syncthreads()
    size,         \* check_correctness: parameter
    nTasks,       \* check_correctness: number of threads launched
    result,       \* check_correctness: the buffer, three copies of size slots
    result0,      \* history: the buffer before the vote
    vpc,          \* vpc[k]: position of the voter thread with tid = k
    printed,      \* bag of the lines printf has written, each <<%f, %f, %f>>
    reported,     \* history: the tid of the threads that called printf
    voterWrites,  \* history: the slots of result that were stored to
    voterAccess,  \* history: the accesses to result, by thread, slot and kind
    passes        \* history: the buffer and the reports at the end of each
                  \* launch of check_correctness that was followed by another

engineVars == <<nruns, ACCUM_N, vectorN, elementN, gridDimX, blockDimX, blockDimY,
                d_A, d_B, d_C, accumResult, pc, vec, iAccum, stride, writes,
                sentinelBy, accesses, arrivals>>

configVars == <<nruns, ACCUM_N, vectorN, elementN, gridDimX, blockDimX, blockDimY,
                d_A, d_B>>

voterVars == <<size, nTasks, result, result0, vpc, printed, reported, voterWrites,
               voterAccess, passes>>

vars == <<engineVars, voterVars>>

\* ---- helpers --------------------------------------------------------------
Runs == 1..nruns

\* a thread is <<blockIdx.x, threadIdx.y, threadIdx.x>>
Threads == (0..(gridDimX - 1)) \X (0..(blockDimY - 1)) \X (0..(blockDimX - 1))

blockIdx(t) == t[1]

threadIdxY(t) == t[2]

threadIdxX(t) == t[3]

BlockThreads(b) == {t \in Threads : blockIdx(t) = b}

\* number of elements of d_A and d_B
Cells(vN, eN) == IF vN > 0 /\ eN > 0 THEN vN * eN ELSE 0

\* slots of global memory reachable from d_C in the model
DCLen == MaxVectorN + 1 + ROW_OFFSET * CACHE_ROWS

\* contents of d_C before the launch (no dot product of the model has this value)
Stale == 0 - 1

\* sign extension of the low 24 bits
SignExt24(x) == ((x + 2^23) % 2^24) - 2^23

\* __mul24: product of the sign-extended low 24 bits of the operands (its low
\* 32 bits, which is the whole product for the operands of the model)
IMUL(a, b) == SignExt24(a) * SignExt24(b)

RECURSIVE SumFrom(_, _, _)
\* for (pos = from; pos < vectorEnd; pos += ACCUM_N) sum += d_A[pos] * d_B[pos]
SumFrom(pos, vectorEnd, step) ==
    IF pos < vectorEnd
    THEN d_A[pos] * d_B[pos] + SumFrom(pos + step, vectorEnd, step)
    ELSE 0

\* PartialSum with sum starting at 1 instead of 0
PartialSumFromOne(v, i) ==
    LET vectorBase == IMUL(elementN, v)
        vectorEnd == vectorBase + elementN
    IN 1 + SumFrom(vectorBase + i, vectorEnd, ACCUM_N)

\* the value of sum stored at line 68 by the thread handling (v, i)
PartialSum(v, i) ==
    LET vectorBase == IMUL(elementN, v)
        vectorEnd == vectorBase + elementN
    IN SumFrom(vectorBase + i, vectorEnd, ACCUM_N)

\* EnterVec with the test of line 50 written vec <= vectorN
EnterVecInclusive(v) == IF v <= vectorN THEN "accum" ELSE "sentinel"

\* where a thread goes when the loop of line 50 is (re)entered with vec = v
EnterVec(v) == IF v < vectorN THEN "accum" ELSE "sentinel"

\* where a thread goes when the loop of line 75 is (re)entered with stride = s
EnterRound(s) == IF s > 0 THEN "sync" ELSE "store"

\* ---- initial states --------------------------------------------------------
\* the contents d_B is given: the ramp 1, 2, .., MaxVal, 1, 2, .. and its rotations
Ramps(n) == {[i \in 0..(n - 1) |-> 1 + ((i + k) % MaxVal)] : k \in 0..(MaxVal - 1)}

Launches ==
    {c \in [g : 1..MaxGrid, x : 1..MaxBlockX, y : 1..MaxBlockY] :
        c.g * c.x * c.y <= MaxThreads}

InitConfig(n) ==
    /\ nruns = n
    /\ ACCUM_N \in AccumChoices
    /\ vectorN \in 0..MaxVectorN
    /\ elementN \in (0 - 1)..MaxElementN
    /\ \E c \in Launches :
        /\ gridDimX = c.g
        /\ blockDimX = c.x
        /\ blockDimY = c.y
    /\ d_A \in [0..(Cells(vectorN, elementN) - 1) -> 1..MaxVal]
    /\ d_B \in Ramps(Cells(vectorN, elementN))

InitEngine ==
    /\ d_C = [r \in Runs |-> [s \in 0..(DCLen - 1) |-> Stale]]
    /\ accumResult = [r \in Runs |-> [b \in 0..(gridDimX - 1) |->
                        [s \in 0..(ACCUM_N * CACHE_ROWS - 1) |-> 0]]]
    /\ pc = [r \in Runs |-> [t \in Threads |-> EnterVec(blockIdx(t))]]
    /\ vec = [r \in Runs |-> [t \in Threads |-> blockIdx(t)]]
    /\ iAccum = [r \in Runs |-> [t \in Threads |-> threadIdxX(t)]]
    /\ stride = [r \in Runs |-> [t \in Threads |-> 0]]
    /\ writes = [r \in Runs |-> {}]
    /\ sentinelBy = [r \in Runs |-> {}]
    /\ accesses = [r \in Runs |-> [b \in 0..(gridDimX - 1) |-> {}]]
    /\ arrivals = [r \in Runs |-> [t \in Threads |-> 0]]

\* no launch of check_correctness
NoVoter ==
    /\ size = 0
    /\ nTasks = 0
    /\ result = <<>>
    /\ result0 = <<>>
    /\ vpc = <<>>
    /\ printed = EmptyBag
    /\ reported = {}
    /\ voterWrites = {}
    /\ voterAccess = {}
    /\ passes = <<>>

Init ==
    /\ InitConfig(1)
    /\ InitEngine
    /\ NoVoter

\* ---- scalarProdGPU ---------------------------------------------------------
\* thread t reads (kind "r") or writes (kind "w") the slot of accumResult
Access(t, slot, kind) == [thread |-> t, slot |-> slot, kind |-> kind]

\* lines 61-69: one iteration of the accumulation loop, or its exit to line 75
Accumulate(r, t) ==
    /\ pc[r][t] = "accum"
    /\ IF iAccum[r][t] < ACCUM_N
       THEN /\ accumResult' = [accumResult EXCEPT
                  ![r][blockIdx(t)][iAccum[r][t] + ACCUM_N * threadIdxY(t)] =
                      PartialSum(vec[r][t], iAccum[r][t])]
            /\ accesses' = [accesses EXCEPT ![r][blockIdx(t)] = @ \cup
                  {Access(t, iAccum[r][t] + ACCUM_N * threadIdxY(t), "w")}]
            /\ iAccum' = [iAccum EXCEPT ![r][t] = @ + blockDimX]
            /\ UNCHANGED <<pc, stride, arrivals>>
       ELSE /\ stride' = [stride EXCEPT ![r][t] = ACCUM_N \div 2]
            /\ pc' = [pc EXCEPT ![r][t] = EnterRound(ACCUM_N \div 2)]
            /\ arrivals' = [arrivals EXCEPT ![r][t] =
                  IF EnterRound(ACCUM_N \div 2) = "sync" THEN @ + 1 ELSE @]
            /\ UNCHANGED <<accumResult, iAccum, accesses>>
    /\ UNCHANGED <<configVars, d_C, vec, writes, sentinelBy, voterVars>>

\* SyncThreads as a barrier of the whole grid instead of the block
SyncThreadsGrid(r, b) ==
    /\ BlockThreads(b) # {}
    /\ \A t \in Threads : pc[r][t] = "sync"
    /\ pc' = [pc EXCEPT ![r] = [t \in Threads |->
                 IF blockIdx(t) = b THEN "combine" ELSE pc[r][t]]]
    /\ iAccum' = [iAccum EXCEPT ![r] = [t \in Threads |->
                 IF blockIdx(t) = b THEN threadIdxX(t) ELSE iAccum[r][t]]]
    /\ accesses' = [accesses EXCEPT ![r][b] = {}]
    /\ UNCHANGED <<configVars, d_C, accumResult, vec, stride, writes, sentinelBy,
                   arrivals, voterVars>>

\* line 77: __syncthreads() releases the block once all its threads wait at it
SyncThreads(r, b) ==
    /\ BlockThreads(b) # {}
    /\ \A t \in BlockThreads(b) : pc[r][t] = "sync"
    /\ pc' = [pc EXCEPT ![r] = [t \in Threads |->
                 IF blockIdx(t) = b THEN "combine" ELSE pc[r][t]]]
    /\ iAccum' = [iAccum EXCEPT ![r] = [t \in Threads |->
                 IF blockIdx(t) = b THEN threadIdxX(t) ELSE iAccum[r][t]]]
    /\ accesses' = [accesses EXCEPT ![r][b] = {}]
    /\ UNCHANGED <<configVars, d_C, accumResult, vec, stride, writes, sentinelBy,
                   arrivals, voterVars>>

\* lines 79-80: one iteration of the combining loop, or its exit (stride >>= 1)
Combine(r, t) ==
    /\ pc[r][t] = "combine"
    /\ IF iAccum[r][t] < stride[r][t]
       THEN /\ accumResult' = [accumResult EXCEPT
                  ![r][blockIdx(t)][iAccum[r][t] + ACCUM_N * threadIdxY(t)] =
                      @ + accumResult[r][blockIdx(t)]
                              [stride[r][t] + iAccum[r][t] + ACCUM_N * threadIdxY(t)]]
            /\ accesses' = [accesses EXCEPT ![r][blockIdx(t)] = @ \cup
                  {Access(t, stride[r][t] + iAccum[r][t] + ACCUM_N * threadIdxY(t), "r"),
                   Access(t, iAccum[r][t] + ACCUM_N * threadIdxY(t), "r"),
                   Access(t, iAccum[r][t] + ACCUM_N * threadIdxY(t), "w")}]
            /\ iAccum' = [iAccum EXCEPT ![r][t] = @ + blockDimX]
            /\ UNCHANGED <<pc, stride, arrivals>>
       ELSE /\ stride' = [stride EXCEPT ![r][t] = @ \div 2]
            /\ pc' = [pc EXCEPT ![r][t] = EnterRound(stride[r][t] \div 2)]
            /\ arrivals' = [arrivals EXCEPT ![r][t] =
                  IF EnterRound(stride[r][t] \div 2) = "sync" THEN @ + 1 ELSE @]
            /\ UNCHANGED <<accumResult, iAccum, accesses>>
    /\ UNCHANGED <<configVars, d_C, vec, writes, sentinelBy, voterVars>>

\* the slot of d_C that line 83 writes for vector v from row y
ResultSlot(v, y) == v + ROW_OFFSET * y

\* line 83, then vec += gridDim.x and the test of line 50
Store(r, t) ==
    /\ pc[r][t] = "store"
    /\ IF threadIdxX(t) = 0
       THEN /\ d_C' = [d_C EXCEPT ![r][ResultSlot(vec[r][t], threadIdxY(t))] =
                          accumResult[r][blockIdx(t)][0 + ACCUM_N * threadIdxY(t)]]
            /\ writes' = [writes EXCEPT ![r] = @ \cup
                  {[slot |-> ResultSlot(vec[r][t], threadIdxY(t)),
                    vec |-> vec[r][t],
                    row |-> threadIdxY(t),
                    afterSentinel |-> sentinelBy[r] # {}]}]
            /\ accesses' = [accesses EXCEPT ![r][blockIdx(t)] = @ \cup
                  {Access(t, 0 + ACCUM_N * threadIdxY(t), "r")}]
       ELSE UNCHANGED <<d_C, writes, accesses>>
    /\ vec' = [vec EXCEPT ![r][t] = @ + gridDimX]
    /\ iAccum' = [iAccum EXCEPT ![r][t] = threadIdxX(t)]
    /\ pc' = [pc EXCEPT ![r][t] = EnterVec(vec[r][t] + gridDimX)]
    /\ UNCHANGED <<configVars, accumResult, stride, sentinelBy, arrivals, voterVars>>

\* IsSentinelThread without the test of blockIdx.x
IsSentinelThreadAnyBlock(t) == threadIdxX(t) = 0 /\ threadIdxY(t) = 0

\* the thread that line 85 designates
IsSentinelThread(t) == threadIdxX(t) = 0 /\ threadIdxY(t) = 0 /\ blockIdx(t) = 0

\* line 85, then the thread returns
Sentinel(r, t) ==
    /\ pc[r][t] = "sentinel"
    /\ IF IsSentinelThread(t)
       THEN /\ d_C' = [d_C EXCEPT ![r][0] = 1]
            /\ sentinelBy' = [sentinelBy EXCEPT ![r] = @ \cup {t}]
       ELSE UNCHANGED <<d_C, sentinelBy>>
    /\ pc' = [pc EXCEPT ![r][t] = "done"]
    /\ UNCHANGED <<configVars, accumResult, vec, iAccum, stride, writes, accesses,
                   arrivals, voterVars>>

\* launches are made on one stream: a launch starts when the one before it has
\* terminated
Terminated(r) == \A t \in Threads : pc[r][t] = "done"

Launched(r) == \A q \in 1..(r - 1) : Terminated(q)

scalarProdGPU ==
    \/ \E r \in Runs : \E t \in Threads : Launched(r) /\ Accumulate(r, t)
    \/ \E r \in Runs : \E b \in 0..(gridDimX - 1) : Launched(r) /\ SyncThreads(r, b)
    \/ \E r \in Runs : \E t \in Threads : Launched(r) /\ Combine(r, t)
    \/ \E r \in Runs : \E t \in Threads : Launched(r) /\ Store(r, t)
    \/ \E r \in Runs : \E t \in Threads : Launched(r) /\ Sentinel(r, t)

Next == scalarProdGPU

Spec == Init /\ [][Next]_vars

\* every thread that can take a step is scheduled in the end
SpecLive == Init /\ [][Next]_vars /\ WF_vars(scalarProdGPU)

\* two launches on the same inputs with the same configuration, each scheduled
\* on its own; the launches have one row of threads
InitPair ==
    /\ InitConfig(2)
    /\ blockDimY = 1
    /\ InitEngine
    /\ NoVoter

SpecPair == InitPair /\ [][Next]_vars

\* the dot product of vector v
RECURSIVE DotFrom(_, _)
DotFrom(v, i) ==
    IF i < elementN
    THEN d_A[v * elementN + i] * d_B[v * elementN + i] + DotFrom(v, i + 1)
    ELSE 0

DotProduct(v) == DotFrom(v, 0)

\* ---- check_correctness -----------------------------------------------------
\* the float that is not a number
NaN == 0 - 1

Floats == (0..MaxResult) \cup {NaN}

\* a != b on floats
FNe(a, b) == a = NaN \/ b = NaN \/ a # b

\* a == b on floats
FEq(a, b) == ~FNe(a, b)

\* no launch of scalarProdGPU
NoEngine ==
    /\ nruns = 0
    /\ ACCUM_N = 2
    /\ vectorN = 0
    /\ elementN = 0
    /\ gridDimX = 1
    /\ blockDimX = 1
    /\ blockDimY = 1
    /\ d_A = <<>>
    /\ d_B = <<>>
    /\ InitEngine

\* the voter threads have tid = threadIdx.x + blockIdx.x * blockDim.x in 0..nTasks-1
Tasks == 0..(nTasks - 1)

InitVoter ==
    /\ NoEngine
    /\ size \in 0..MaxSize
    /\ nTasks \in size..(size + MaxSpare)
    /\ result \in [0..(3 * size - 1) -> Floats]
    /\ result0 = result
    /\ vpc = [k \in Tasks |-> "entry"]
    /\ printed = EmptyBag
    /\ reported = {}
    /\ voterWrites = {}
    /\ voterAccess = {}
    /\ passes = <<>>

\* the voter thread tid reads (kind "r") or writes (kind "w") the slot of result
VAccess(tid, slot, kind) == [tid |-> tid, slot |-> slot, kind |-> kind]

\* the reads of lines 95-96 by the thread tid
Reads01(tid) ==
    IF tid >= size THEN {}
    ELSE {VAccess(tid, tid, "r"), VAccess(tid, tid + size, "r")}

\* the reads of line 98 by the thread tid (&& reads its right side only when
\* its left side holds)
Reads2(tid) ==
    {VAccess(tid, tid, "r"), VAccess(tid, tid + size * 2, "r")} \cup
    (IF FNe(result[tid], result[tid + size * 2])
     THEN {VAccess(tid, tid + size, "r")} ELSE {})

\* Compare01 without the test of line 96: every index goes on to line 98
Compare01NoTest(tid) ==
    /\ vpc[tid] = "entry"
    /\ vpc' = [vpc EXCEPT ![tid] = IF tid >= size THEN "done" ELSE "differ"]
    /\ voterAccess' = voterAccess \cup Reads01(tid)
    /\ UNCHANGED <<engineVars, size, nTasks, result, result0, printed, reported,
                   voterWrites, passes>>

\* lines 94-96: the bound check and the comparison of copy 0 with copy 1
Compare01(tid) ==
    /\ vpc[tid] = "entry"
    /\ vpc' = [vpc EXCEPT ![tid] =
          IF tid >= size THEN "done"
          ELSE IF FNe(result[tid], result[tid + size]) THEN "differ"
          ELSE "done"]
    /\ voterAccess' = voterAccess \cup Reads01(tid)
    /\ UNCHANGED <<engineVars, size, nTasks, result, result0, printed, reported,
                   voterWrites, passes>>

\* Compare2 without the test of line 98: every mismatch is corrected
Compare2NoDue(tid) ==
    /\ vpc[tid] = "differ"
    /\ vpc' = [vpc EXCEPT ![tid] = "correct"]
    /\ voterAccess' = voterAccess
    /\ UNCHANGED <<engineVars, size, nTasks, result, result0, printed, reported,
                   voterWrites, passes>>

\* Compare2 with the second comparison of line 98 made against copy 0
Compare2WrongCopy(tid) ==
    /\ vpc[tid] = "differ"
    /\ vpc' = [vpc EXCEPT ![tid] =
          IF /\ FNe(result[tid], result[tid + size * 2])
             /\ FNe(result[tid + size], result[tid])
          THEN "due"
          ELSE "correct"]
    /\ voterAccess' = voterAccess \cup Reads2(tid)
    /\ UNCHANGED <<engineVars, size, nTasks, result, result0, printed, reported,
                   voterWrites, passes>>

\* line 98: the comparison of copies 0 and 1 with copy 2
Compare2(tid) ==
    /\ vpc[tid] = "differ"
    /\ vpc' = [vpc EXCEPT ![tid] =
          IF /\ FNe(result[tid], result[tid + size * 2])
             /\ FNe(result[tid + size], result[tid + size * 2])
          THEN "due"
          ELSE "correct"]
    /\ voterAccess' = voterAccess \cup Reads2(tid)
    /\ UNCHANGED <<engineVars, size, nTasks, result, result0, printed, reported,
                   voterWrites, passes>>

\* the line that printf("DUE %f %f %f\n", ..) at line 100 writes
DueLine(tid) == <<result[tid], result[tid + size], result[tid + size * 2]>>

\* line 100
PrintDue(tid) ==
    /\ vpc[tid] = "due"
    /\ printed' = printed (+) SetToBag({DueLine(tid)})
    /\ reported' = reported \cup {tid}
    /\ vpc' = [vpc EXCEPT ![tid] = "done"]
    /\ voterAccess' = voterAccess \cup
          {VAccess(tid, tid, "r"), VAccess(tid, tid + size, "r"),
           VAccess(tid, tid + size * 2, "r")}
    /\ UNCHANGED <<engineVars, size, nTasks, result, result0, voterWrites, passes>>

\* Correct taking the value of copy 1 instead of copy 2
CorrectFromCopy1(tid) ==
    /\ vpc[tid] = "correct"
    /\ result' = [result EXCEPT ![tid] = result[tid + size]]
    /\ voterWrites' = voterWrites \cup {tid}
    /\ vpc' = [vpc EXCEPT ![tid] = "done"]
    /\ voterAccess' = voterAccess \cup
          {VAccess(tid, tid + size * 2, "r"), VAccess(tid, tid, "w")}
    /\ UNCHANGED <<engineVars, size, nTasks, result0, printed, reported, passes>>

\* Correct without its store
CorrectNoStore(tid) ==
    /\ vpc[tid] = "correct"
    /\ vpc' = [vpc EXCEPT ![tid] = "done"]
    /\ voterAccess' = voterAccess
    /\ UNCHANGED <<engineVars, size, nTasks, result, result0, printed, reported,
                   voterWrites, passes>>

\* Correct with the assignment turned around: copy 2 is given the value of copy 0
CorrectSwapped(tid) ==
    /\ vpc[tid] = "correct"
    /\ result' = [result EXCEPT ![tid + size * 2] = result[tid]]
    /\ voterWrites' = voterWrites \cup {tid + size * 2}
    /\ vpc' = [vpc EXCEPT ![tid] = "done"]
    /\ voterAccess' = voterAccess \cup
          {VAccess(tid, tid, "r"), VAccess(tid, tid + size * 2, "w")}
    /\ UNCHANGED <<engineVars, size, nTasks, result0, printed, reported, passes>>

\* Correct storing to result[0] instead of result[tid]
CorrectSlotZero(tid) ==
    /\ vpc[tid] = "correct"
    /\ result' = [result EXCEPT ![0] = result[tid + size * 2]]
    /\ voterWrites' = voterWrites \cup {0}
    /\ vpc' = [vpc EXCEPT ![tid] = "done"]
    /\ voterAccess' = voterAccess \cup
          {VAccess(tid, tid + size * 2, "r"), VAccess(tid, 0, "w")}
    /\ UNCHANGED <<engineVars, size, nTasks, result0, printed, reported, passes>>

\* line 106
Correct(tid) ==
    /\ vpc[tid] = "correct"
    /\ result' = [result EXCEPT ![tid] = result[tid + size * 2]]
    /\ voterWrites' = voterWrites \cup {tid}
    /\ vpc' = [vpc EXCEPT ![tid] = "done"]
    /\ voterAccess' = voterAccess \cup
          {VAccess(tid, tid + size * 2, "r"), VAccess(tid, tid, "w")}
    /\ UNCHANGED <<engineVars, size, nTasks, result0, printed, reported, passes>>

check_correctness ==
    \/ \E tid \in Tasks : Compare01(tid)
    \/ \E tid \in Tasks : Compare2(tid)
    \/ \E tid \in Tasks : PrintDue(tid)
    \/ \E tid \in Tasks : Correct(tid)

SpecVoter == InitVoter /\ [][check_correctness]_vars

\* every voter thread that can take a step is scheduled in the end
SpecVoterLive == InitVoter /\ [][check_correctness]_vars /\ WF_vars(check_correctness)

\* the voter thread tid has returned
Voted(tid) == vpc[tid] = "done"

\* the caller launches check_correctness a second time on the same buffer, once
\* the first launch has completed
Relaunch ==
    /\ passes = <<>>
    /\ \A tid \in Tasks : Voted(tid)
    /\ passes' = <<[result |-> result, reported |-> reported]>>
    /\ vpc' = [k \in Tasks |-> "entry"]
    /\ reported' = {}
    /\ voterWrites' = {}
    /\ voterAccess' = {}
    /\ UNCHANGED <<engineVars, size, nTasks, result, result0, printed>>

NextTwice ==
    \/ check_correctness
    \/ Relaunch

SpecVoterTwice == InitVoter /\ [][NextTwice]_vars

\* ---- properties of check_correctness ---------------------------------------
\* the three copies at index tid before the vote
Pre0(tid) == result0[tid]

Pre1(tid) == result0[tid + size]

Pre2(tid) == result0[tid + size * 2]

Indices == 0..(size - 1)

\* at least two of the copies at tid compared equal to x before the vote
TwoHold(tid, x) ==
    \/ FEq(Pre0(tid), x) /\ FEq(Pre1(tid), x)
    \/ FEq(Pre0(tid), x) /\ FEq(Pre2(tid), x)
    \/ FEq(Pre1(tid), x) /\ FEq(Pre2(tid), x)

\* no two of the copies at tid compared equal before the vote
PairwiseDifferent(tid) ==
    /\ FNe(Pre0(tid), Pre1(tid))
    /\ FNe(Pre0(tid), Pre2(tid))
    /\ FNe(Pre1(tid), Pre2(tid))

AllVoted == \A tid \in Tasks : Voted(tid)

\* C2: single-fault tolerance. Once the thread of an index has returned, if two
\* of the three pre-vote copies held the same value x (so at most one copy was
\* corrupted), copy 0 holds x, whichever copy the corrupted one was.
C2_SingleFaultTolerance ==
    \A tid \in Indices : \A x \in Floats :
        (Voted(tid) /\ TwoHold(tid, x)) => result[tid] = x

\* C2 witness: the vote is over, at index 0 copy 0 was the corrupted copy and
\* has been given the value of the other two, at index 1 copy 1 was the
\* corrupted copy and copy 0 kept the value it shares with copy 2.
C2_Witness ==
    /\ size = 2
    /\ AllVoted
    /\ FEq(Pre1(0), Pre2(0)) /\ FNe(Pre0(0), Pre1(0))
    /\ result[0] = Pre1(0) /\ result[0] # Pre0(0)
    /\ FEq(Pre0(1), Pre2(1)) /\ FNe(Pre0(1), Pre1(1))
    /\ result[1] = Pre0(1)

\* C3: agreement passthrough. At an index where copy 0 and copy 1 compared
\* equal before the vote, copy 0 keeps its value and is never stored to,
\* whatever copy 2 holds.
C3_AgreementPassthrough ==
    \A tid \in Indices :
        FEq(Pre0(tid), Pre1(tid)) =>
            (result[tid] = Pre0(tid) /\ tid \notin voterWrites)

\* C3 witness: a thread has returned at an index where copies 0 and 1 agreed
\* and copy 2 did not.
C3_Witness ==
    \E tid \in Indices :
        /\ Voted(tid)
        /\ FEq(Pre0(tid), Pre1(tid))
        /\ FNe(Pre0(tid), Pre2(tid))
        /\ result[tid] = Pre0(tid)

\* C4: majority correction. At an index where copy 0 and copy 1 differed and
\* copy 2 compared equal to one of them, copy 0 holds the pre-vote value of
\* copy 2 once the thread of the index has returned.
C4_MajorityCorrection ==
    \A tid \in Indices :
        (/\ Voted(tid)
         /\ FNe(Pre0(tid), Pre1(tid))
         /\ (FEq(Pre0(tid), Pre2(tid)) \/ FEq(Pre1(tid), Pre2(tid))))
        => result[tid] = Pre2(tid)

\* C4 witness: a thread has returned at an index where copy 1 and copy 2 agreed
\* against copy 0, and copy 0 was changed to their value.
C4_Witness ==
    \E tid \in Indices :
        /\ Voted(tid)
        /\ FNe(Pre0(tid), Pre1(tid))
        /\ FEq(Pre1(tid), Pre2(tid))
        /\ tid \in voterWrites
        /\ result[tid] = Pre2(tid)
        /\ result[tid] # Pre0(tid)

\* C5: double-upset detection. At an index where the three copies were
\* pairwise different, copy 0 is never changed, and once the thread of the
\* index has returned a diagnostic has been emitted for the index.
C5_DoubleUpsetDetection ==
    \A tid \in Indices :
        PairwiseDifferent(tid) =>
            /\ result[tid] = Pre0(tid)
            /\ tid \notin voterWrites
            /\ Voted(tid) => tid \in reported

\* C5 witness: a thread has returned and reported at an index with three
\* pairwise different numbers.
C5_Witness ==
    \E tid \in Indices :
        /\ Voted(tid)
        /\ PairwiseDifferent(tid)
        /\ Pre0(tid) # NaN /\ Pre1(tid) # NaN /\ Pre2(tid) # NaN
        /\ tid \in reported

\* C6: every diagnostic line names the index at which the copies disagree,
\* together with the three values found there, so that the undetermined
\* indices can be read off the lines.
C6_DiagnosticNamesIndex ==
    \A line \in BagToSet(printed) :
        /\ Len(line) = 4
        /\ line[1] \in reported
        /\ <<line[2], line[3], line[4]>> =
               <<Pre0(line[1]), Pre1(line[1]), Pre2(line[1])>>

\* C7: correctable faults never surface. No diagnostic is emitted for an index
\* where two copies compared equal; one line is printed per reported index;
\* when the vote is over the reported indices are exactly those whose copies
\* were pairwise different.
C7_CorrectableNeverSurfaces ==
    /\ \A tid \in Indices : ~PairwiseDifferent(tid) => tid \notin reported
    /\ BagCardinality(printed) = Cardinality(reported)
    /\ AllVoted => reported = {tid \in Indices : PairwiseDifferent(tid)}

\* C7 witness: the vote is over; one index was corrected, another reported.
C7_Witness ==
    /\ AllVoted
    /\ \E tid \in Indices : tid \in voterWrites /\ result[tid] # Pre0(tid)
    /\ \E tid \in Indices : tid \in reported
    /\ BagCardinality(printed) = 1

\* ---- properties of scalarProdGPU --------------------------------------------
\* C1: when a launch with one row of threads has terminated, every slot v of
\* 1..vectorN-1 holds the dot product of vector v, for vectorN >= 1 and
\* elementN >= 1.
C1_DotProducts ==
    (/\ Terminated(1)
     /\ blockDimY = 1
     /\ vectorN >= 1
     /\ elementN >= 1)
    => \A v \in 1..(vectorN - 1) : d_C[1][v] = DotProduct(v)

\* C8: slot-0 sentinel. When the launch has terminated d_C[0] = 1; only the
\* thread (0, 0) of block 0 stores the sentinel, and it has stored it by then;
\* once it is stored slot 0 holds 1 and no store of line 83 to slot 0 follows.
C8_SlotZeroSentinel ==
    \A r \in Runs :
        /\ Terminated(r) => (d_C[r][0] = 1 /\ sentinelBy[r] = {<<0, 0, 0>>})
        /\ sentinelBy[r] \subseteq {<<0, 0, 0>>}
        /\ sentinelBy[r] # {} => d_C[r][0] = 1
        /\ \A w \in writes[r] : w.slot = 0 => ~w.afterSentinel

\* C8 witness: a launch of two blocks has terminated; the dot product of vector
\* 0, which is not 1, was stored to slot 0, and slot 0 holds 1.
C8_Witness ==
    /\ Terminated(1)
    /\ gridDimX = 2
    /\ vectorN >= 2
    /\ elementN >= 1
    /\ DotProduct(0) # 1
    /\ \E w \in writes[1] : w.slot = 0 /\ w.vec = 0 /\ w.row = 0
    /\ d_C[1][0] = 1

\* C9: the result of row (replica) r for vector v is stored to slot
\* r * vectorN + v, inside 0..3*vectorN-1, which is where check_correctness
\* launched with size = vectorN reads copy r of index v.
C9_LayoutAgrees ==
    (vectorN >= 1 /\ elementN >= 1) =>
        \A w \in writes[1] :
            /\ w.slot = w.row * vectorN + w.vec
            /\ w.slot < 3 * vectorN

\* C10: determinism. Two launches on the same inputs with the same
\* configuration, each under its own schedule, end with equal result buffers.
C10_Determinism ==
    (Terminated(1) /\ Terminated(2)) => d_C[1] = d_C[2]

\* the slots of d_C that a store of line 83 has been made to
StoredSlots(r) == {w.slot : w \in writes[r]}

\* C11 as stated: a launch with elementN <= 0 and vectorN >= 1 stores to no
\* slot other than slot 0, and every slot other than slot 0 keeps the value it
\* had before the launch.
C11_NoOpOnEmptyVectors ==
    (elementN <= 0 /\ vectorN >= 1) =>
        /\ StoredSlots(1) \subseteq {0}
        /\ \A s \in 1..(DCLen - 1) : d_C[1][s] = Stale

\* C11 amended: a launch with elementN <= 0 and vectorN >= 1 stores the empty
\* sum 0 wherever line 83 stores; the slots line 83 has not stored to keep
\* their value; when the launch has terminated C[v] = 0 for v in 1..vectorN-1.
C11_EmptySumStored ==
    (elementN <= 0 /\ vectorN >= 1) =>
        /\ \A s \in 1..(DCLen - 1) :
              d_C[1][s] = (IF s \in StoredSlots(1) THEN 0 ELSE Stale)
        /\ Terminated(1) => \A v \in 1..(vectorN - 1) : d_C[1][v] = 0

\* C11 witness: a launch with elementN <= 0 over three vectors has terminated,
\* the slots 1 and 2 hold 0.
C11_Witness ==
    /\ elementN <= 0
    /\ vectorN = 3
    /\ Terminated(1)
    /\ d_C[1][1] = 0
    /\ d_C[1][2] = 0
    /\ {1, 2} \subseteq StoredSlots(1)

\* C12: with vectorN = 0 no thread enters the body of the loop of line 50: no
\* thread is at the accumulation, the barrier, the reduction or the store, the
\* cache is not written, line 83 stores nothing, and the only change of d_C is
\* C[0] := 1, made by the time the launch has terminated.
C12_NoVectors ==
    (nruns = 1 /\ vectorN = 0) =>
        /\ \A t \in Threads : pc[1][t] \in {"sentinel", "done"}
        /\ writes[1] = {}
        /\ \A b \in 0..(gridDimX - 1) :
              \A s \in 0..(ACCUM_N * CACHE_ROWS - 1) : accumResult[1][b][s] = 0
        /\ \A s \in 1..(DCLen - 1) : d_C[1][s] = Stale
        /\ d_C[1][0] = (IF sentinelBy[1] = {} THEN Stale ELSE 1)
        /\ Terminated(1) => d_C[1][0] = 1

\* C12 witness: a launch of two threads with vectorN = 0 has terminated and
\* slot 0 holds the sentinel.
C12_Witness ==
    /\ vectorN = 0
    /\ nruns = 1
    /\ Cardinality(Threads) = 2
    /\ Terminated(1)
    /\ d_C[1][0] = 1

\* C18: apart from the sentinel, every slot of d_C is stored to for at most one
\* pair of a vector and a row.
C18_NoWriteConflict ==
    (vectorN >= 1 /\ elementN >= 1) =>
        \A w1 \in writes[1] : \A w2 \in writes[1] :
            w1.slot = w2.slot => (w1.vec = w2.vec /\ w1.row = w2.row)

\* two accesses to one slot of accumResult by different threads, one of them a
\* write, with no __syncthreads() between them
Conflict(a1, a2) ==
    /\ a1.thread # a2.thread
    /\ a1.slot = a2.slot
    /\ a1.kind = "w" \/ a2.kind = "w"

\* C13: the accumulator cache is free of data races: no two threads of a block
\* access one slot of accumResult, one of them writing, without a barrier
\* between the two accesses.
C13_NoCacheRace ==
    \A r \in Runs : \A b \in 0..(gridDimX - 1) :
        \A a1 \in accesses[r][b] : \A a2 \in accesses[r][b] : ~Conflict(a1, a2)

RECURSIVE Log2(_)
\* the number of halvings that take n to 1
Log2(n) == IF n <= 1 THEN 0 ELSE 1 + Log2(n \div 2)

RECURSIVE RowSum(_, _, _, _)
\* the sum of the first n slots of row y of the cache of block b
RowSum(r, b, y, n) ==
    IF n = 0 THEN 0
    ELSE accumResult[r][b][(n - 1) + ACCUM_N * y] + RowSum(r, b, y, n - 1)

RECURSIVE PartialsFrom(_, _)
PartialsFrom(v, i) ==
    IF i < ACCUM_N THEN PartialSum(v, i) + PartialsFrom(v, i + 1) ELSE 0

\* the sum of the ACCUM_N partial sums of vector v
SumPartials(v) == PartialsFrom(v, 0)

\* the vectors block b has finished before it works on vector v
VectorsBefore(b, v) == (v - b) \div gridDimX

\* every thread of block b waits at line 77 for the round with stride s
AllAtSync(r, b, s) ==
    \A t \in BlockThreads(b) : pc[r][t] = "sync" /\ stride[r][t] = s

\* the slots of row y that the accesses of kind k since the last barrier touch
Touched(r, b, y, k) ==
    {a.slot - ACCUM_N * y : a \in {x \in accesses[r][b] :
                                     x.kind = k /\ threadIdxY(x.thread) = y}}

\* C14: the tree reduction. When a block waits for the round with stride s, the
\* slots 0..2s-1 of each row add up to the sum of the partial sums of the
\* vector; if a round (with stride 2s) came before, it wrote the slots 0..2s-1,
\* each by one thread, and read 0..4s-1; when thread 0 of a row is at line 83,
\* after exactly log2(ACCUM_N) rounds for this vector, slot 0 of the row holds
\* the sum of all partial sums of the vector.
C14_TreeReduction ==
    \A b \in 0..(gridDimX - 1) : \A y \in 0..(blockDimY - 1) :
        /\ \A s \in 1..(ACCUM_N \div 2) :
              AllAtSync(1, b, s) =>
                  /\ RowSum(1, b, y, 2 * s) = SumPartials(vec[1][<<b, y, 0>>])
                  /\ s < ACCUM_N \div 2 =>
                        /\ Touched(1, b, y, "w") = 0..(2 * s - 1)
                        /\ Touched(1, b, y, "r") = 0..(4 * s - 1)
                        /\ \A a1 \in accesses[1][b] : \A a2 \in accesses[1][b] :
                              ~Conflict(a1, a2)
        /\ pc[1][<<b, y, 0>>] = "store" =>
              /\ accumResult[1][b][ACCUM_N * y] = SumPartials(vec[1][<<b, y, 0>>])
              /\ arrivals[1][<<b, y, 0>>] =
                    Log2(ACCUM_N) * (VectorsBefore(b, vec[1][<<b, y, 0>>]) + 1)

\* the number of vectors that block b is given by the loop of line 50
NumVectors(b) == Cardinality({v \in 0..(vectorN - 1) : v % gridDimX = b})

\* the threads of a block are at the same barrier: none of them has left the
\* loop of line 50 while another waits at line 77, and when all wait they wait
\* for the same vector and stride, after the same number of arrivals
SameBarrier(r, b) ==
    \A t1 \in BlockThreads(b) : \A t2 \in BlockThreads(b) :
        /\ ~(pc[r][t1] = "sync" /\ pc[r][t2] \in {"sentinel", "done"})
        /\ (\A t \in BlockThreads(b) : pc[r][t] = "sync") =>
              /\ arrivals[r][t1] = arrivals[r][t2]
              /\ vec[r][t1] = vec[r][t2]
              /\ stride[r][t1] = stride[r][t2]

\* a thread that has left the loop of line 50 has arrived at line 77
\* log2(ACCUM_N) times for each vector of its block
BarrierCount(r, t) ==
    pc[r][t] \in {"sentinel", "done"} =>
        arrivals[r][t] = Log2(ACCUM_N) * NumVectors(blockIdx(t))

\* C15: barrier uniformity and termination. The threads of a block reach the
\* same barriers, log2(ACCUM_N) for each vector of the block, a number that
\* depends on the block, vectorN and gridDim.x only; under fair scheduling
\* every thread of the launch terminates.
C15_UniformBarriersAndTermination ==
    /\ [](\A b \in 0..(gridDimX - 1) : SameBarrier(1, b))
    /\ [](\A t \in Threads : BarrierCount(1, t))
    /\ <>Terminated(1)

\* C15 witness: a launch of two blocks over three vectors with ACCUM_N = 4 has
\* terminated; the thread of block 0 passed four barriers, that of block 1 two.
C15_Witness ==
    /\ Terminated(1)
    /\ gridDimX = 2
    /\ vectorN = 3
    /\ ACCUM_N = 4
    /\ arrivals[1][<<0, 0, 0>>] = 4
    /\ arrivals[1][<<1, 0, 0>>] = 2

\* ---- the frame and the independence of the voter ---------------------------
\* C16: check_correctness never stores to copy 1 or copy 2, never touches a
\* slot at or beyond 3*size, the task of index tid stores to slot tid at most,
\* and a task with tid >= size does nothing at all; with size = 0 nothing is
\* compared, stored or printed.
C16_VoterFrame ==
    /\ \A i \in size..(size * 3 - 1) : result[i] = result0[i]
    /\ \A a \in voterAccess :
        /\ a.tid \in Indices
        /\ a.slot \in 0..(size * 3 - 1)
        /\ a.kind = "w" => a.slot = a.tid
    /\ voterWrites \subseteq Indices
    /\ \A tid \in Tasks : tid >= size => vpc[tid] \in {"entry", "done"}
    /\ size = 0 =>
        /\ voterAccess = {}
        /\ voterWrites = {}
        /\ printed = EmptyBag
        /\ reported = {}

\* a correction was stored while a task beyond size ran through to its return
C16_Witness ==
    /\ AllVoted
    /\ size = 1
    /\ nTasks = 2
    /\ VAccess(0, 0, "w") \in voterAccess
    /\ result[0] # result0[0]

\* the value line 96-106 leave in copy 0, from the three values before the vote
VoteOf(c0, c1, c2) ==
    IF FEq(c0, c1) THEN c0
    ELSE IF FNe(c0, c2) /\ FNe(c1, c2) THEN c0
    ELSE c2

\* the indices lines 96-100 report, from the values before the vote
Undetermined == {tid \in Indices : PairwiseDifferent(tid)}

\* C17: the outcome at every index is a function of the three values at that
\* index before the vote; no task touches a slot another task stores to; the
\* buffer and the diagnostics at the end are the same whatever the order of the
\* tasks' steps; every task returns.
C17_TasksIndependent ==
    /\ [](\A tid \in Indices : Voted(tid) =>
            /\ result[tid] = VoteOf(Pre0(tid), Pre1(tid), Pre2(tid))
            /\ tid \in reported <=> PairwiseDifferent(tid))
    /\ [](\A a1 \in voterAccess : \A a2 \in voterAccess :
            (a1.tid # a2.tid /\ a1.kind = "w") => a1.slot # a2.slot)
    /\ [](AllVoted =>
            /\ \A i \in 0..(size * 3 - 1) :
                result[i] = IF i < size
                            THEN VoteOf(result0[i], result0[i + size],
                                        result0[i + size * 2])
                            ELSE result0[i]
            /\ reported = Undetermined
            /\ BagCardinality(printed) = Cardinality(Undetermined)
            /\ \A tid \in Undetermined :
                CopiesIn(<<Pre0(tid), Pre1(tid), Pre2(tid)>>, printed) =
                Cardinality({k \in Undetermined :
                    <<Pre0(k), Pre1(k), Pre2(k)>> =
                    <<Pre0(tid), Pre1(tid), Pre2(tid)>>}))
    /\ <>AllVoted

\* index 0 was reported and index 1 was corrected all the same
C17_Witness ==
    /\ AllVoted
    /\ size = 2
    /\ nTasks = 3
    /\ reported = {0}
    /\ 1 \in voterWrites
    /\ result[1] = Pre2(1)
    /\ result[1] # Pre0(1)

\* C19: a second launch of check_correctness on the buffer the first launch
\* left changes no value of it, and reports the indices the first reported.
C19_VoterIdempotent ==
    passes # <<>> =>
        /\ result = passes[1].result
        /\ AllVoted => reported = passes[1].reported

\* the second launch has returned, after a first that corrected index 0 and
\* reported index 1; the second reported index 1 again and stored nothing
C19_Witness ==
    /\ passes # <<>>
    /\ AllVoted
    /\ size = 2
    /\ passes[1].reported = {1}
    /\ reported = {1}
    /\ passes[1].result[0] # result0[0]
    /\ BagCardinality(printed) = 2
    /\ voterWrites = {}

\* ---- the engine followed by the voter --------------------------------------
\* a launch of scalarProdGPU as one block with the three replica rows of
\* accumResult in use and one vector for each slot of a replica region
\* the inputs A of the pipeline: each vector of A repeats one value
FlatVectors ==
    {[i \in 0..(Cells(vectorN, elementN) - 1) |-> a[i \div elementN]] :
        a \in [0..(vectorN - 1) -> 1..MaxVal]}

InitPipeline ==
    /\ nruns = 1
    /\ ACCUM_N = 2
    /\ vectorN = ROW_OFFSET
    /\ elementN = MaxElementN
    /\ gridDimX = 1
    /\ blockDimX \in 1..MaxBlockX
    /\ blockDimY = CACHE_ROWS
    /\ d_A \in FlatVectors
    /\ d_B \in Ramps(Cells(vectorN, elementN))
    /\ InitEngine
    /\ NoVoter

\* check_correctness has been launched
VoterLaunched == nTasks > 0

\* once scalarProdGPU has completed, check_correctness is launched on d_C with
\* size = the offset between the replica regions and one thread per index
LaunchVoter ==
    /\ Terminated(1)
    /\ ~VoterLaunched
    /\ size' = ROW_OFFSET
    /\ nTasks' = ROW_OFFSET
    /\ result' = [i \in 0..(ROW_OFFSET * 3 - 1) |-> d_C[1][i]]
    /\ result0' = [i \in 0..(ROW_OFFSET * 3 - 1) |-> d_C[1][i]]
    /\ vpc' = [k \in 0..(ROW_OFFSET - 1) |-> "entry"]
    /\ UNCHANGED <<engineVars, printed, reported, voterWrites, voterAccess, passes>>

NextPipeline ==
    \/ scalarProdGPU
    \/ LaunchVoter
    \/ check_correctness

SpecPipeline == InitPipeline /\ [][NextPipeline]_vars

\* C20: after scalarProdGPU with three replica rows and check_correctness with
\* size = the replica offset, no index is reported, copy 0 equals copy 2 at
\* every index, and slot 0 holds the dot product of vector 0, not the sentinel.
C20_PipelineSanitized ==
    (VoterLaunched /\ AllVoted) =>
        /\ reported = {}
        /\ printed = EmptyBag
        /\ \A v \in Indices : result[v] = result[v + size * 2]
        /\ result[0] = DotProduct(0)

TypeOK == \A r \in Runs : \A t \in Threads :
    pc[r][t] \in {"accum", "sync", "combine", "store", "sentinel", "done"}
====
